---- MODULE Spec2Model ----
(***************************************************************************)
(* Guardrail evaluation of the Railier API                                 *)
(* (apps/api/app/api/routes/evaluate.py): execute_block and the            *)
(* evaluate_guardrail request handler, run against a stored guardrail row  *)
(* (apps/api/app/models/guardrail.py).                                     *)
(*                                                                         *)
(* Python strings are TLA+ strings; the string operations the code uses    *)
(* (str.lower, the substring test "a in b") are computed on the strings'   *)
(* characters, which CharsOf lists.  Wall-clock durations are not          *)
(* modelled.                                                               *)
(***************************************************************************)
EXTENDS Integers, Sequences, FiniteSets, TLC

VARIABLES
    guardrail,        \* the stored row: blocks, connections, version
    request,          \* the EvaluationRequest being served
    pc,               \* position of the handler: idle, walk, commit, done
    context,          \* the execution context dict
    blocks,           \* the handler's local: guardrail.blocks
    idx,              \* position of the for loop in blocks
    execution_trace,  \* list of BlockExecutionResult
    final_decision,
    final_reason,
    evaluation_logs,  \* rows of the evaluation_logs table
    response,         \* the EvaluationResponse returned
    gen_pc,           \* position of generate_blocks: off, request, parsed, done
    gen_prompt,       \* the GenerateBlocksRequest prompt
    gen_result,       \* the JSON object parsed from the model's answer
    gen_response,     \* the GenerateBlocksResponse returned
    update_response,  \* what update_guardrail returned
    create_response,  \* what create_guardrail returned
    delete_response   \* what delete_guardrail returned

genVars == <<gen_pc, gen_prompt, gen_result, gen_response>>
crudVars == <<update_response, create_response, delete_response>>

vars == <<guardrail, request, pc, context, blocks, idx, execution_trace,
          final_decision, final_reason, evaluation_logs, response, genVars, crudVars>>

\* ---------------------------------------------------------------- bounds
MaxBlocks == 3
\* evaluations logged in one behaviour
MaxEvals == 2
\* the highest version an update may produce
MaxVersion == 2

\* --------------------------------------------------------------- strings
CharsOf ==
       "" :> <<>> @@
       "contains" :> <<"c", "o", "n", "t", "a", "i", "n", "s">> @@
       "role" :> <<"r", "o", "l", "e">> @@
       "regex" :> <<"r", "e", "g", "e", "x">> @@
       "and" :> <<"a", "n", "d">> @@
       "or" :> <<"o", "r">> @@
       "not" :> <<"n", "o", "t">> @@
       "block" :> <<"b", "l", "o", "c", "k">> @@
       "allow" :> <<"a", "l", "l", "o", "w">> @@
       "warn" :> <<"w", "a", "r", "n">> @@
       "approval" :> <<"a", "p", "p", "r", "o", "v", "a", "l">> @@
       "log" :> <<"l", "o", "g">> @@
       "policy" :> <<"p", "o", "l", "i", "c", "y">> @@
       "user" :> <<"u", "s", "e", "r">> @@
       "input-message" :> <<"i", "n", "p", "u", "t", "-", "m", "e", "s", "s", "a", "g", "e">> @@
       "condition-contains" :> <<"c", "o", "n", "d", "i", "t", "i", "o", "n", "-", "c", "o", "n", "t", "a", "i", "n", "s">> @@
       "condition-role" :> <<"c", "o", "n", "d", "i", "t", "i", "o", "n", "-", "r", "o", "l", "e">> @@
       "condition-regex" :> <<"c", "o", "n", "d", "i", "t", "i", "o", "n", "-", "r", "e", "g", "e", "x">> @@
       "logic-and" :> <<"l", "o", "g", "i", "c", "-", "a", "n", "d">> @@
       "logic-or" :> <<"l", "o", "g", "i", "c", "-", "o", "r">> @@
       "logic-not" :> <<"l", "o", "g", "i", "c", "-", "n", "o", "t">> @@
       "action-block" :> <<"a", "c", "t", "i", "o", "n", "-", "b", "l", "o", "c", "k">> @@
       "action-allow" :> <<"a", "c", "t", "i", "o", "n", "-", "a", "l", "l", "o", "w">> @@
       "action-warn" :> <<"a", "c", "t", "i", "o", "n", "-", "w", "a", "r", "n">> @@
       "action-approval" :> <<"a", "c", "t", "i", "o", "n", "-", "a", "p", "p", "r", "o", "v", "a", "l">> @@
       "action-log" :> <<"a", "c", "t", "i", "o", "n", "-", "l", "o", "g">> @@
       "data-user" :> <<"d", "a", "t", "a", "-", "u", "s", "e", "r">> @@
       "data-policy" :> <<"d", "a", "t", "a", "-", "p", "o", "l", "i", "c", "y">> @@
       "llm-evaluate" :> <<"l", "l", "m", "-", "e", "v", "a", "l", "u", "a", "t", "e">> @@
       "output-decision" :> <<"o", "u", "t", "p", "u", "t", "-", "d", "e", "c", "i", "s", "i", "o", "n">> @@
       "what is John's salary" :> <<"w", "h", "a", "t", " ", "i", "s", " ", "J", "o", "h", "n", "'", "s", " ", "s", "a", "l", "a", "r", "y">> @@
       "hello" :> <<"h", "e", "l", "l", "o">> @@
       "salary" :> <<"s", "a", "l", "a", "r", "y">> @@
       "employee" :> <<"e", "m", "p", "l", "o", "y", "e", "e">> @@
       "HR" :> <<"H", "R">> @@
       "hr" :> <<"h", "r">> @@
       "(" :> <<"(">> @@
       "compensation" :> <<"c", "o", "m", "p", "e", "n", "s", "a", "t", "i", "o", "n">> @@
       "pay" :> <<"p", "a", "y">> @@
       "pii" :> <<"p", "i", "i">> @@
       "personal" :> <<"p", "e", "r", "s", "o", "n", "a", "l">> @@
       "privacy" :> <<"p", "r", "i", "v", "a", "c", "y">> @@
       "Hide PII" :> <<"H", "i", "d", "e", " ", "P", "I", "I">>

\* str.lower() on one character (the upper-case letters the strings use)
LowerChar(c) ==
    CASE c = "H" -> "h"
      [] c = "I" -> "i"
      [] c = "J" -> "j"
      [] c = "P" -> "p"
      [] c = "R" -> "r"
      [] c = "S" -> "s"
      [] OTHER -> c

\* s.lower(), as the characters of the result
Lower(s) == [k \in 1..Len(CharsOf[s]) |-> LowerChar(CharsOf[s][k])]

\* "sub in s" on character sequences
InSeq(sub, s) ==
    \E k \in 0..(Len(s) - Len(sub)) :
        \A j \in 1..Len(sub) : s[k + j] = sub[j]

\* "sub in s" on strings
In(sub, s) == InSeq(CharsOf[sub], CharsOf[s])

\* dict.get(key, default)
Get(d, key, default) == IF key \in DOMAIN d THEN d[key] ELSE default

\* the empty dict {}
EmptyDict == [k \in {} |-> ""]

\* Python values of mixed type (a block's result)
NoneVal == [kind |-> "none"]
BoolVal(b) == [kind |-> "bool", value |-> b]
StrVal(s) == [kind |-> "str", value |-> s]
DictVal(d) == [kind |-> "dict", value |-> d]

\* all(xs) and any(xs) over a sequence of booleans
AllOf(xs) == \A k \in 1..Len(xs) : xs[k]
AnyOf(xs) == \E k \in 1..Len(xs) : xs[k]

\* "request.userRole or ''" and "request.context or {}"
OrDefault(v, default) ==
    IF v.kind = "none" THEN default
    ELSE IF v.value = default THEN default
    ELSE v.value

\* ---------------------------------------------------------- execute_block
\* condition block with "contains" in its templateId
ExecContains(config, ctx) ==
    LET message == Lower(Get(ctx, "message", ""))
        keywords == Get(config, "keywords", <<>>)
        match_mode == Get(config, "matchMode", "any")
        hits == [k \in 1..Len(keywords) |-> InSeq(Lower(keywords[k]), message)]
        activated == IF match_mode = "any" THEN AnyOf(hits) ELSE AllOf(hits)
    IN [activated |-> activated, result |-> BoolVal(activated)]

\* condition block with "role" in its templateId
ExecRole(config, ctx) ==
    LET roles == Get(config, "allowedRoles", <<>>)
        allowed_roles == [k \in 1..Len(roles) |-> Lower(roles[k])]
        user_role == Lower(Get(ctx, "userRole", ""))
        activated == \E k \in 1..Len(allowed_roles) : allowed_roles[k] = user_role
    IN [activated |-> activated, result |-> BoolVal(activated)]

\* re.compile: the patterns modelled are literal text, or hold an unclosed
\* group "(", which re rejects with re.error
RegexCompiles(pattern) ==
    \A k \in 1..Len(CharsOf[pattern]) : CharsOf[pattern][k] # "("

\* bool(re.search(pattern, message, re.IGNORECASE)) for a literal pattern
ReSearch(pattern, message) == InSeq(Lower(pattern), Lower(message))

\* mutant: a pattern that does not compile counts as a match
ExecRegexErrorActivates(config, ctx) ==
    LET pattern == Get(config, "pattern", "")
    IN IF pattern = "" THEN [activated |-> FALSE, result |-> BoolVal(FALSE)]
       ELSE IF ~RegexCompiles(pattern)
       THEN [activated |-> TRUE, result |-> BoolVal(TRUE)]
       ELSE LET activated == ReSearch(pattern, Get(ctx, "message", ""))
            IN [activated |-> activated, result |-> BoolVal(activated)]

\* condition block with "regex" in its templateId; an invalid pattern raises
\* inside the try, and the except clause keeps activated = False
ExecRegex(config, ctx) ==
    LET pattern == Get(config, "pattern", "")
    IN IF pattern = "" THEN [activated |-> FALSE, result |-> BoolVal(FALSE)]
       ELSE IF ~RegexCompiles(pattern)
       THEN [activated |-> FALSE,
             result |-> DictVal([error |-> "missing ), unterminated subpattern at position 0"])]
       ELSE LET activated == ReSearch(pattern, Get(ctx, "message", ""))
            IN [activated |-> activated, result |-> BoolVal(activated)]

ExecCondition(block, config, ctx) ==
    LET template_id == Get(block, "templateId", "")
    IN IF In("contains", template_id) THEN ExecContains(config, ctx)
       ELSE IF In("role", template_id) THEN ExecRole(config, ctx)
       ELSE IF In("regex", template_id) THEN ExecRegex(config, ctx)
       ELSE [activated |-> FALSE, result |-> NoneVal]

\* logic block: combines the entries of context["_block_inputs"][block id]
ExecLogic(block, ctx) ==
    LET template_id == Get(block, "templateId", "")
        inputs == Get(Get(ctx, "_block_inputs", EmptyDict),
                      Get(block, "id", ""), <<>>)
        activated ==
            IF In("and", template_id)
            THEN (IF Len(inputs) > 0 THEN AllOf(inputs) ELSE FALSE)
            ELSE IF In("or", template_id)
            THEN (IF Len(inputs) > 0 THEN AnyOf(inputs) ELSE FALSE)
            ELSE IF In("not", template_id)
            THEN ~(IF Len(inputs) > 0 THEN inputs[1] ELSE TRUE)
            ELSE FALSE
    IN [activated |-> activated, result |-> BoolVal(activated)]

\* action block: always activates, the templateId selects the signal
ExecAction(block, config) ==
    LET template_id == Get(block, "templateId", "")
        result ==
            IF In("block", template_id)
            THEN DictVal([action |-> "block",
                          message |-> Get(config, "message", "Request blocked.")])
            ELSE IF In("allow", template_id)
            THEN DictVal([action |-> "allow"])
            ELSE IF In("warn", template_id)
            THEN DictVal([action |-> "warn",
                          warning |-> Get(config, "warning", "")])
            ELSE IF In("approval", template_id)
            THEN DictVal([action |-> "require_approval",
                          approvers |-> Get(config, "approvers", <<>>)])
            ELSE IF In("log", template_id)
            THEN DictVal([action |-> "log",
                          level |-> Get(config, "logLevel", "info")])
            ELSE NoneVal
    IN [activated |-> TRUE, result |-> result]

ExecData(block, config, ctx) ==
    LET template_id == Get(block, "templateId", "")
        result ==
            IF In("policy", template_id)
            THEN DictVal([policyId |-> Get(config, "policyId", ""),
                          loaded |-> TRUE])
            ELSE IF In("user", template_id)
            THEN DictVal([userRole |-> Get(ctx, "userRole", ""),
                          fields |-> Get(config, "fields", <<>>)])
            ELSE NoneVal
    IN [activated |-> TRUE, result |-> result]

\* execute_block(block, context) -> (activated, result)
execute_block(block, ctx) ==
    LET block_type == Get(block, "type", "")
        config == Get(block, "config", EmptyDict)
    IN CASE block_type = "input" ->
              [activated |-> TRUE,
               result |-> StrVal(Get(ctx, "message", ""))]
         [] block_type = "condition" -> ExecCondition(block, config, ctx)
         [] block_type = "logic" -> ExecLogic(block, ctx)
         [] block_type = "action" -> ExecAction(block, config)
         [] block_type = "data" -> ExecData(block, config, ctx)
         [] block_type = "llm" ->
              [activated |-> TRUE,
               result |-> DictVal([evaluated |-> TRUE,
                                   prompt |-> Get(config, "prompt", "")])]
         [] block_type = "output" ->
              [activated |-> TRUE,
               result |-> StrVal(Get(ctx, "_final_decision", "allow"))]
         [] OTHER -> [activated |-> FALSE, result |-> NoneVal]

\* ------------------------------------------------------- stored guardrails
BlockIds == <<"block-1", "block-2", "block-3", "block-4",
              "block-5", "block-6", "block-7", "block-8">>

\* a stored block: BlockBase.model_dump() plus the templateId the evaluator reads
Block(id, type, templateId, config) ==
    [id |-> id, type |-> type, templateId |-> templateId, config |-> config]

\* a stored connection (ConnectionBase)
Conn(src, srcHandle, tgt, tgtHandle) ==
    [sourceBlockId |-> src, sourceHandle |-> srcHandle,
     targetBlockId |-> tgt, targetHandle |-> tgtHandle]

InputMessage(id) == Block(id, "input", "input-message", EmptyDict)
CondContains(id) ==
    Block(id, "condition", "condition-contains",
          [keywords |-> <<"salary">>, matchMode |-> "any"])
CondRole(id) ==
    Block(id, "condition", "condition-role", [allowedRoles |-> <<"HR">>])
CondRegex(id, pattern) ==
    Block(id, "condition", "condition-regex", [pattern |-> pattern])
LogicAnd(id) == Block(id, "logic", "logic-and", EmptyDict)
LogicOr(id) == Block(id, "logic", "logic-or", EmptyDict)
LogicNot(id) == Block(id, "logic", "logic-not", EmptyDict)
ActionBlock(id) ==
    Block(id, "action", "action-block", [message |-> "Access denied"])
ActionBlockDefault(id) == Block(id, "action", "action-block", EmptyDict)
ActionAllow(id) == Block(id, "action", "action-allow", EmptyDict)
ActionWarn(id) ==
    Block(id, "action", "action-warn", [warning |-> "Sensitive topic"])
ActionApproval(id) ==
    Block(id, "action", "action-approval", [approvers |-> <<"manager">>])
ActionLog(id) == Block(id, "action", "action-log", [logLevel |-> "info"])
\* BlockBase declares no templateId: a block stored through the API has none
ActionNoTemplate(id) == [id |-> id, type |-> "action", config |-> EmptyDict]
DataUser(id) == Block(id, "data", "data-user", [fields |-> <<"role">>])
LlmEvaluate(id) == Block(id, "llm", "llm-evaluate", [prompt |-> "Is it safe?"])
OutputDecision(id) == Block(id, "output", "output-decision", EmptyDict)

\* the block kinds a generated block list draws from
BlockKinds == 1..10
MakeBlock(kind, id) ==
    CASE kind = 1 -> InputMessage(id)
      [] kind = 2 -> CondContains(id)
      [] kind = 3 -> CondRole(id)
      [] kind = 4 -> LogicNot(id)
      [] kind = 5 -> ActionBlock(id)
      [] kind = 6 -> ActionAllow(id)
      [] kind = 7 -> ActionWarn(id)
      [] kind = 8 -> ActionApproval(id)
      [] kind = 9 -> ActionLog(id)
      [] kind = 10 -> ActionNoTemplate(id)

\* block-1 -> block-2 -> ... -> block-n
Chain(n) ==
    [k \in 1..(n - 1) |-> Conn(BlockIds[k], "output", BlockIds[k + 1], "input")]

Graph(bs, cs) == [blocks |-> bs, connections |-> cs]

\* every block list of at most MaxBlocks blocks, wired in sequence
ChainGraphs ==
    UNION {{Graph([k \in 1..n |-> MakeBlock(kinds[k], BlockIds[k])], Chain(n)) :
               kinds \in [1..n -> BlockKinds]} : n \in 0..MaxBlocks}

\* the salary guardrail: input -> contains -> AND <- role -> block,
\* role's false branch -> allow
SalaryGraph ==
    Graph(<<InputMessage("block-1"), CondContains("block-2"),
            CondRole("block-3"), LogicAnd("block-4"),
            ActionBlock("block-5"), ActionAllow("block-6")>>,
          <<Conn("block-1", "output", "block-2", "input"),
            Conn("block-1", "output", "block-3", "input"),
            Conn("block-2", "true", "block-4", "input"),
            Conn("block-3", "true", "block-4", "input-2"),
            Conn("block-4", "output", "block-5", "input"),
            Conn("block-3", "false", "block-6", "input")>>)

\* a block path and a warn path side by side
PrecedenceGraph ==
    Graph(<<InputMessage("block-1"), CondContains("block-2"),
            ActionBlock("block-3"), ActionWarn("block-4")>>,
          <<Conn("block-1", "output", "block-2", "input"),
            Conn("block-2", "true", "block-3", "input"),
            Conn("block-1", "output", "block-4", "input")>>)

\* two conditions feeding one gate
GateGraph(gate) ==
    Graph(<<InputMessage("block-1"), CondContains("block-2"),
            CondRole("block-3"), gate>>,
          <<Conn("block-1", "output", "block-2", "input"),
            Conn("block-1", "output", "block-3", "input"),
            Conn("block-2", "true", "block-4", "input"),
            Conn("block-3", "true", "block-4", "input-2")>>)

\* a graph stored with a cycle between its last two blocks
CyclicGraph ==
    Graph(<<InputMessage("block-1"), ActionAllow("block-2"),
            ActionLog("block-3")>>,
          <<Conn("block-1", "output", "block-2", "input"),
            Conn("block-2", "output", "block-3", "input"),
            Conn("block-3", "output", "block-2", "input")>>)

\* a graph declared against the direction of its connections
ReversedGraph ==
    Graph(<<OutputDecision("block-1"), ActionWarn("block-2"),
            InputMessage("block-3")>>,
          <<Conn("block-3", "output", "block-2", "input"),
            Conn("block-2", "output", "block-1", "input")>>)

\* a graph with an action no connection leads to
OrphanGraph ==
    Graph(<<InputMessage("block-1"), OutputDecision("block-2"),
            ActionWarn("block-3")>>,
          <<Conn("block-1", "output", "block-2", "input")>>)

\* the remaining block kinds, wired in sequence
MixedGraph ==
    Graph(<<InputMessage("block-1"), DataUser("block-2"),
            LlmEvaluate("block-3"), CondRegex("block-4", "salary"),
            CondRegex("block-5", "("), ActionApproval("block-6"),
            ActionBlockDefault("block-7"), OutputDecision("block-8")>>,
          Chain(8))

\* a warning followed by the output block
WarnOutputGraph ==
    Graph(<<InputMessage("block-1"), ActionWarn("block-2"),
            OutputDecision("block-3")>>,
          Chain(3))

ScenarioGraphs ==
    {SalaryGraph, PrecedenceGraph, GateGraph(LogicAnd("block-4")),
     GateGraph(LogicOr("block-4")), GateGraph(LogicNot("block-4")),
     CyclicGraph, ReversedGraph, OrphanGraph, MixedGraph, WarnOutputGraph}

Graphs == ChainGraphs \cup ScenarioGraphs

\* ------------------------------------------------------------- requests
Messages == {"what is John's salary", "hello"}
UserRoles == {NoneVal, StrVal("employee"), StrVal("HR")}
\* a free-form context that carries its own "message" key
OverridingContext == DictVal([message |-> "hello"])
Requests ==
    [message : Messages, userRole : UserRoles, context : {NoneVal}]
    \cup {[message |-> "what is John's salary", userRole |-> StrVal("HR"),
           context |-> OverridingContext]}

NoRequest == NoneVal
\* scalar_one_or_none() when no row has the requested id
NoGuardrail == NoneVal
NoResponse == NoneVal

\* ------------------------------------------------------------------ Init
\* no request is being served by a handler
EvaluateIdle ==
    /\ request = NoRequest
    /\ pc = "idle"
    /\ context = EmptyDict
    /\ blocks = <<>>
    /\ idx = 0
    /\ execution_trace = <<>>
    /\ final_decision = ""
    /\ final_reason = ""
    /\ evaluation_logs = <<>>
    /\ response = NoResponse

GenerateOff ==
    /\ gen_pc = "off"
    /\ gen_prompt = ""
    /\ gen_result = NoneVal
    /\ gen_response = NoResponse

\* no create, update or delete has answered yet
CrudIdle ==
    /\ update_response = NoResponse
    /\ create_response = NoResponse
    /\ delete_response = NoResponse

Init ==
    /\ guardrail \in {[kind |-> "row", blocks |-> g.blocks,
                       connections |-> g.connections, version |-> 1] :
                      g \in Graphs} \cup {NoGuardrail}
    /\ GenerateOff
    /\ EvaluateIdle
    /\ CrudIdle

\* ------------------------------------------------------ evaluate_guardrail
\* the execution context built for a request
BuildContext(req) ==
    ("_block_inputs" :> EmptyDict @@ "_final_decision" :> "allow")
    @@ OrDefault(req.context, EmptyDict)
    @@ ("message" :> req.message @@ "userRole" :> OrDefault(req.userRole, ""))

\* mutant: the running decision starts from the last logged evaluation
StartEvaluateFromLastLog ==
    /\ pc = "idle"
    /\ guardrail.kind = "row"
    /\ Len(evaluation_logs) < MaxEvals
    /\ \E req \in Requests :
        /\ request' = req
        /\ context' = BuildContext(req)
    /\ blocks' = guardrail.blocks
    /\ idx' = 0
    /\ execution_trace' = <<>>
    /\ final_decision' = IF evaluation_logs = <<>> THEN "allow"
                         ELSE evaluation_logs[Len(evaluation_logs)].decision
    /\ final_reason' = IF evaluation_logs = <<>>
                       THEN "Request passed all guardrail checks"
                       ELSE evaluation_logs[Len(evaluation_logs)].reason
    /\ pc' = IF Len(guardrail.blocks) = 0 THEN "commit" ELSE "walk"
    /\ UNCHANGED <<guardrail, evaluation_logs, response, genVars,
                   crudVars>>

\* the handler up to the for loop: load the guardrail, build the context,
\* bind the locals
StartEvaluate ==
    /\ pc = "idle"
    /\ guardrail.kind = "row"
    /\ Len(evaluation_logs) < MaxEvals
    /\ \E req \in Requests :
        /\ request' = req
        /\ context' = BuildContext(req)
    /\ blocks' = guardrail.blocks
    /\ idx' = 0
    /\ execution_trace' = <<>>
    /\ final_decision' = "allow"
    /\ final_reason' = "Request passed all guardrail checks"
    /\ pc' = IF Len(guardrail.blocks) = 0 THEN "commit" ELSE "walk"
    /\ UNCHANGED <<guardrail, evaluation_logs, response, genVars, crudVars>>

\* the guardrail is not found: HTTP 404, nothing is evaluated or logged
EvaluateNotFound ==
    /\ pc = "idle"
    /\ guardrail.kind = "none"
    /\ \E req \in Requests : request' = req
    /\ response' = [kind |-> "error", status_code |-> 404,
                    detail |-> "Guardrail not found"]
    /\ pc' = "done"
    /\ UNCHANGED <<guardrail, context, blocks, idx, execution_trace,
                   final_decision, final_reason, evaluation_logs, genVars, crudVars>>

\* mutant: action 'block' sets the decision but the loop goes on
DecideNoBreak(block, r, decision, reason) ==
    IF Get(block, "type", "") = "action" /\ r.activated /\ r.result.kind = "dict"
    THEN LET action == Get(r.result.value, "action", "")
         IN IF action = "block"
            THEN [decision |-> "block",
                  reason |-> Get(r.result.value, "message", "Request blocked"),
                  stop |-> FALSE]
            ELSE IF action = "warn"
            THEN [decision |-> "warn",
                  reason |-> Get(r.result.value, "warning", "Warning issued"),
                  stop |-> FALSE]
            ELSE IF action = "require_approval"
            THEN [decision |-> "require_approval",
                  reason |-> "Request requires human approval",
                  stop |-> FALSE]
            ELSE [decision |-> decision, reason |-> reason, stop |-> FALSE]
    ELSE [decision |-> decision, reason |-> reason, stop |-> FALSE]

\* mutant: an activated action-allow resets the running decision
DecideAllowResets(block, r, decision, reason) ==
    LET d == DecideNoBreak(block, r, decision, reason)
        action == IF r.result.kind = "dict"
                  THEN Get(r.result.value, "action", "") ELSE ""
    IN IF Get(block, "type", "") = "action" /\ action = "allow"
       THEN [decision |-> "allow",
             reason |-> "Request passed all guardrail checks", stop |-> FALSE]
       ELSE [d EXCEPT !.stop = (action = "block"
                                 /\ Get(block, "type", "") = "action")]

\* mutant: an activated action-log becomes the decision
DecideLogDecides(block, r, decision, reason) ==
    LET d == DecideNoBreak(block, r, decision, reason)
        action == IF r.result.kind = "dict"
                  THEN Get(r.result.value, "action", "") ELSE ""
    IN IF Get(block, "type", "") = "action" /\ action = "log"
       THEN [decision |-> "log", reason |-> "Logged", stop |-> FALSE]
       ELSE [d EXCEPT !.stop = (action = "block"
                                 /\ Get(block, "type", "") = "action")]

\* mutant: action 'warn' leaves the loop as action 'block' does
DecideWarnStops(block, r, decision, reason) ==
    LET d == DecideNoBreak(block, r, decision, reason)
    IN [d EXCEPT !.stop = (d.decision \in {"block", "warn"}
                           /\ d.decision # decision)]

\* the decision an executed block leaves: (decision, reason, break)
Decide(block, r, decision, reason) ==
    IF Get(block, "type", "") = "action" /\ r.activated /\ r.result.kind = "dict"
    THEN LET action == Get(r.result.value, "action", "")
         IN IF action = "block"
            THEN [decision |-> "block",
                  reason |-> Get(r.result.value, "message", "Request blocked"),
                  stop |-> TRUE]
            ELSE IF action = "warn"
            THEN [decision |-> "warn",
                  reason |-> Get(r.result.value, "warning", "Warning issued"),
                  stop |-> FALSE]
            ELSE IF action = "require_approval"
            THEN [decision |-> "require_approval",
                  reason |-> "Request requires human approval",
                  stop |-> FALSE]
            ELSE [decision |-> decision, reason |-> reason, stop |-> FALSE]
    ELSE [decision |-> decision, reason |-> reason, stop |-> FALSE]

\* mutant: only blocks that activated are recorded
AppendTraceIfActivated(trace, block, r) ==
    IF r.activated
    THEN Append(trace, [blockId |-> Get(block, "id", ""),
                        blockType |-> Get(block, "type", ""),
                        result |-> r.result,
                        activated |-> r.activated])
    ELSE trace

\* execution_trace.append(BlockExecutionResult(...))
AppendTrace(trace, block, r) ==
    Append(trace, [blockId |-> Get(block, "id", ""),
                   blockType |-> Get(block, "type", ""),
                   result |-> r.result,
                   activated |-> r.activated])

\* mutant: the loop reads the stored row again at every iteration
CurrentBlockOfRow ==
    IF guardrail.kind = "row" /\ idx + 1 <= Len(guardrail.blocks)
    THEN guardrail.blocks[idx + 1]
    ELSE blocks[idx + 1]

\* the block the loop is at: an element of the handler's local list
CurrentBlock == blocks[idx + 1]

\* one iteration of "for block in blocks"
ExecuteStep ==
    /\ pc = "walk"
    /\ idx < Len(blocks)
    /\ LET block == CurrentBlock
           r == execute_block(block, context)
           d == Decide(block, r, final_decision, final_reason)
       IN /\ execution_trace' = AppendTrace(execution_trace, block, r)
          /\ final_decision' = d.decision
          /\ final_reason' = d.reason
          /\ idx' = idx + 1
          /\ pc' = IF d.stop \/ idx + 1 = Len(blocks) THEN "commit" ELSE "walk"
    /\ UNCHANGED <<guardrail, request, context, blocks, evaluation_logs,
                   response, genVars, crudVars>>

\* after the loop: write the EvaluationLog row and build the response
Commit ==
    /\ pc = "commit"
    /\ guardrail.kind = "row"
    /\ evaluation_logs' =
           Append(evaluation_logs,
                  [input_data |-> [message |-> request.message,
                                   userRole |-> request.userRole],
                   execution_trace |-> execution_trace,
                   decision |-> final_decision,
                   reason |-> final_reason])
    /\ response' = [kind |-> "ok", decision |-> final_decision,
                    reason |-> final_reason,
                    executionTrace |-> execution_trace]
    /\ pc' = "done"
    /\ UNCHANGED <<guardrail, request, context, blocks, idx, execution_trace,
                   final_decision, final_reason, genVars, crudVars>>

Next ==
    \/ StartEvaluate
    \/ EvaluateNotFound
    \/ ExecuteStep
    \/ Commit

Spec == Init /\ [][Next]_vars

\* ------------------------------------------------------ generate_blocks
MaxGenBlocks == 3
MaxGenConns == 2

\* int(id.split("-")[1]) for the ids "block-0", "block-1", ...
BlockNum(id) ==
    IF id = "block-0" THEN 0
    ELSE CHOOSE k \in 1..Len(BlockIds) : BlockIds[k] = id

\* id.split("-")[1] exists and is a number
HasBlockNum(id) == id = "block-0" \/ \E k \in 1..Len(BlockIds) : BlockIds[k] = id

\* f"block-{n}"
BlockIdOf(n) == IF n = 0 THEN "block-0" ELSE BlockIds[n]

\* the block numbers the connections name as a source or a target
ConnectedBlocks(connections) ==
    UNION {{BlockNum(Get(connections[k], "sourceBlockId", "block-0")),
            BlockNum(Get(connections[k], "targetBlockId", "block-0"))} :
           k \in 1..Len(connections)}

\* "for block_num in sorted(orphaned)", from block_num on: the connections
\* appended for the orphaned blocks
RECURSIVE AutoConnect(_, _, _)
AutoConnect(orphaned, block_num, block_count) ==
    IF block_num > block_count THEN <<>>
    ELSE IF block_num \in orphaned /\ block_num > 1
                /\ (block_num - 1) \in 1..block_count
    THEN <<Conn(BlockIdOf(block_num - 1), "output",
                BlockIdOf(block_num), "input")>>
         \o AutoConnect(orphaned, block_num + 1, block_count)
    ELSE AutoConnect(orphaned, block_num + 1, block_count)

\* validate_and_fix_connections(blocks, connections) -> (blocks, connections)
validate_and_fix_connections(bs, connections) ==
    LET block_count == Len(bs)
        all_blocks == 1..block_count
        orphaned == all_blocks \ ConnectedBlocks(connections)
    IN IF block_count = 0 THEN [blocks |-> bs, connections |-> connections]
       ELSE IF orphaned # {}
       THEN [blocks |-> bs,
             connections |-> connections \o AutoConnect(orphaned, 1, block_count)]
       ELSE [blocks |-> bs, connections |-> connections]

\* a generated block: a templateId and a config, no id
GenBlock(templateId) == [templateId |-> templateId, config |-> EmptyDict]

\* generate_demo_blocks(prompt)
generate_demo_blocks(prompt) ==
    LET prompt_lower == Lower(prompt)
        Has(word) == InSeq(CharsOf[word], prompt_lower)
    IN IF Has("salary") \/ Has("compensation") \/ Has("pay")
       THEN [blocks |-> <<GenBlock("input-message"), GenBlock("condition-contains"),
                          GenBlock("condition-role"), GenBlock("logic-and"),
                          GenBlock("action-block"), GenBlock("action-allow")>>,
             connections |-> <<Conn("block-1", "output", "block-2", "input"),
                               Conn("block-2", "true", "block-4", "input"),
                               Conn("block-3", "output", "block-4", "input-2"),
                               Conn("block-4", "output", "block-5", "input")>>,
             explanation |-> "salary"]
       ELSE IF Has("pii") \/ Has("personal") \/ Has("privacy")
       THEN [blocks |-> <<GenBlock("input-message"), GenBlock("llm-classify"),
                          GenBlock("action-block"), GenBlock("action-warn")>>,
             connections |-> <<Conn("block-1", "output", "block-2", "input")>>,
             explanation |-> "pii"]
       ELSE [blocks |-> <<GenBlock("input-message"), GenBlock("llm-evaluate"),
                          GenBlock("action-allow"), GenBlock("action-block")>>,
             connections |-> <<Conn("block-1", "output", "block-2", "input")>>,
             explanation |-> "basic"]

Prompts == {"what is John's salary", "Hide PII", "hello"}

\* the connections a model answer may hold: any source and target among
\* block-1 .. block-n, or a source id that is no "block-N"
GenConns(n) ==
    {Conn(BlockIds[i], "output", BlockIds[j], "input") : i \in 1..n, j \in 1..n}
    \cup {Conn("start", "output", BlockIds[j], "input") : j \in 1..n}

\* sequences over S of length at most n
RECURSIVE SeqsUpTo(_, _)
SeqsUpTo(S, n) ==
    IF n = 0 THEN {<<>>}
    ELSE LET shorter == SeqsUpTo(S, n - 1)
         IN shorter \cup {Append(q, x) : q \in shorter, x \in S}

\* the parsed answers of the model: up to MaxGenBlocks blocks and up to
\* MaxGenConns connections
GenResults ==
    UNION {{[blocks |-> [k \in 1..n |-> GenBlock("action-allow")],
             connections |-> cs] : cs \in SeqsUpTo(GenConns(n), MaxGenConns)} :
           n \in 0..MaxGenBlocks}

\* call_ollama answered and json.loads parsed the answer
OllamaAnswers ==
    /\ gen_pc = "request"
    /\ gen_result' \in GenResults
    /\ gen_pc' = "parsed"
    /\ UNCHANGED <<guardrail, request, pc, context, blocks, idx, execution_trace,
                   final_decision, final_reason, evaluation_logs, response,
                   gen_prompt, gen_response, crudVars>>

\* call_ollama raised or the answer was no JSON: the demo blocks are returned
OllamaFails ==
    /\ gen_pc = "request"
    /\ gen_response' = generate_demo_blocks(gen_prompt)
    /\ gen_pc' = "done"
    /\ UNCHANGED <<guardrail, request, pc, context, blocks, idx, execution_trace,
                   final_decision, final_reason, evaluation_logs, response,
                   gen_prompt, gen_result, crudVars>>

\* the rest of generate_blocks: validate and fix the connections, respond;
\* a connection id that is no "block-N" raises and the demo blocks are returned
GenerateRespond ==
    /\ gen_pc = "parsed"
    /\ LET cs == gen_result.connections
           wellFormed ==
               \A k \in 1..Len(cs) :
                   /\ HasBlockNum(Get(cs[k], "sourceBlockId", "block-0"))
                   /\ HasBlockNum(Get(cs[k], "targetBlockId", "block-0"))
       IN gen_response' =
              IF Len(gen_result.blocks) = 0 \/ wellFormed
              THEN LET fixed == validate_and_fix_connections(gen_result.blocks, cs)
                   IN [blocks |-> fixed.blocks, connections |-> fixed.connections,
                       explanation |-> "Generated guardrail blocks"]
              ELSE generate_demo_blocks(gen_prompt)
    /\ gen_pc' = "done"
    /\ UNCHANGED <<guardrail, request, pc, context, blocks, idx, execution_trace,
                   final_decision, final_reason, evaluation_logs, response,
                   gen_prompt, gen_result, crudVars>>

InitGenerate ==
    /\ guardrail = NoGuardrail
    /\ EvaluateIdle
    /\ gen_pc = "request"
    /\ gen_prompt \in Prompts
    /\ gen_result = NoneVal
    /\ gen_response = NoResponse
    /\ CrudIdle

NextGenerate ==
    \/ OllamaAnswers
    \/ OllamaFails
    \/ GenerateRespond

SpecGenerate == InitGenerate /\ [][NextGenerate]_vars

\* ------------------------------------- evaluations, updates, cancellation
ListVal(v) == [kind |-> "list", value |-> v]

\* block.model_dump(): the fields BlockBase declares, so no templateId
ModelDump(block) == [k \in (DOMAIN block) \ {"templateId"} |-> block[k]]

\* input -> action-block -> action-allow
BlockThenAllowGraph ==
    Graph(<<InputMessage("block-1"), ActionBlock("block-2"),
            ActionAllow("block-3")>>,
          Chain(3))

ServiceGraphs == {WarnOutputGraph, BlockThenAllowGraph}

\* the GuardrailUpdate bodies: each field is None or a new value
Updates ==
    [blocks : {NoneVal,
               ListVal(<<InputMessage("block-1"), ActionBlock("block-2")>>)},
     connections : {NoneVal, ListVal(Chain(2))}]

\* mutant: the version is bumped only when the body sets some field
UpdateGuardrailBumpsOnChange ==
    /\ guardrail.kind = "row"
    /\ guardrail.version < MaxVersion
    /\ \E data \in Updates :
        guardrail' =
            [guardrail EXCEPT
                !.blocks = IF data.blocks.kind = "none" THEN @
                           ELSE [k \in 1..Len(data.blocks.value) |->
                                    ModelDump(data.blocks.value[k])],
                !.connections = IF data.connections.kind = "none" THEN @
                                ELSE data.connections.value,
                !.version = IF data.blocks.kind = "none"
                               /\ data.connections.kind = "none"
                            THEN @ ELSE @ + 1]
    /\ update_response' = [kind |-> "ok", guardrail |-> guardrail']
    /\ UNCHANGED <<request, pc, context, blocks, idx, execution_trace,
                   final_decision, final_reason, evaluation_logs, response,
                   genVars, create_response, delete_response>>

\* update_guardrail on a stored guardrail: set the fields that are not None,
\* version += 1, return the row
UpdateGuardrail ==
    /\ guardrail.kind = "row"
    /\ guardrail.version < MaxVersion
    /\ \E data \in Updates :
        guardrail' =
            [guardrail EXCEPT
                !.blocks = IF data.blocks.kind = "none" THEN @
                           ELSE [k \in 1..Len(data.blocks.value) |->
                                    ModelDump(data.blocks.value[k])],
                !.connections = IF data.connections.kind = "none" THEN @
                                ELSE data.connections.value,
                !.version = @ + 1]
    /\ update_response' = [kind |-> "ok", guardrail |-> guardrail']
    /\ UNCHANGED <<request, pc, context, blocks, idx, execution_trace,
                   final_decision, final_reason, evaluation_logs, response,
                   genVars, create_response, delete_response>>

\* update_guardrail when no row has the id: HTTP 404
UpdateNotFound ==
    /\ guardrail.kind = "none"
    /\ update_response' = [kind |-> "error", status_code |-> 404,
                           detail |-> "Guardrail not found"]
    /\ UNCHANGED <<guardrail, request, pc, context, blocks, idx,
                   execution_trace, final_decision, final_reason,
                   evaluation_logs, response, genVars, create_response,
                   delete_response>>

\* the request task is cancelled while it awaits the select: CancelledError
\* leaves the handler, nothing is returned
CancelDuringLoad ==
    /\ pc = "idle"
    /\ \E req \in Requests : request' = req
    /\ pc' = "cancelled"
    /\ UNCHANGED <<guardrail, context, blocks, idx, execution_trace,
                   final_decision, final_reason, evaluation_logs, response,
                   genVars, crudVars>>

\* the request task is cancelled while it awaits db.commit(): CancelledError
\* leaves the handler, the log row is not committed, nothing is returned
CancelDuringCommit ==
    /\ pc = "commit"
    /\ pc' = "cancelled"
    /\ UNCHANGED <<guardrail, request, context, blocks, idx, execution_trace,
                   final_decision, final_reason, evaluation_logs, response,
                   genVars, crudVars>>

\* the request is over: the handler's frame is gone, the next request starts
\* from nothing
Return ==
    /\ pc \in {"done", "cancelled"}
    /\ request' = NoRequest
    /\ pc' = "idle"
    /\ context' = EmptyDict
    /\ blocks' = <<>>
    /\ idx' = 0
    /\ execution_trace' = <<>>
    /\ final_decision' = ""
    /\ final_reason' = ""
    /\ response' = NoResponse
    /\ UNCHANGED <<guardrail, evaluation_logs, genVars, crudVars>>

InitService ==
    /\ guardrail \in {[kind |-> "row", blocks |-> g.blocks,
                       connections |-> g.connections, version |-> 1] :
                      g \in ServiceGraphs} \cup {NoGuardrail}
    /\ GenerateOff
    /\ EvaluateIdle
    /\ CrudIdle

NextService ==
    \/ StartEvaluate
    \/ EvaluateNotFound
    \/ ExecuteStep
    \/ Commit
    \/ Return
    \/ UpdateGuardrail
    \/ UpdateNotFound
    \/ CancelDuringLoad
    \/ CancelDuringCommit

SpecService == InitService /\ [][NextService]_vars

\* ------------------------------------------------ create, delete, evaluate
\* the GuardrailCreate bodies: blocks and connections default to []
Creates == {Graph(<<>>, <<>>)} \cup ServiceGraphs

\* create_guardrail: the row is stored under a fresh uuid with the column
\* default version 1 and returned. The model follows one id: the row is
\* created once, and after its deletion no later create brings the id back.
CreateGuardrail ==
    /\ guardrail.kind = "none"
    /\ create_response = NoResponse
    /\ \E data \in Creates :
        guardrail' = [kind |-> "row",
                      blocks |-> [k \in 1..Len(data.blocks) |->
                                     ModelDump(data.blocks[k])],
                      connections |-> data.connections,
                      version |-> 1]
    /\ create_response' = [kind |-> "ok", guardrail |-> guardrail']
    /\ UNCHANGED <<request, pc, context, blocks, idx, execution_trace,
                   final_decision, final_reason, evaluation_logs, response,
                   genVars, update_response, delete_response>>

\* delete_guardrail on a stored guardrail: the row goes and its evaluation
\* logs go with it (cascade="all, delete-orphan")
DeleteGuardrail ==
    /\ guardrail.kind = "row"
    /\ guardrail' = NoGuardrail
    /\ evaluation_logs' = <<>>
    /\ delete_response' = [kind |-> "ok", success |-> TRUE]
    /\ UNCHANGED <<request, pc, context, blocks, idx, execution_trace,
                   final_decision, final_reason, response, genVars,
                   update_response, create_response>>

\* delete_guardrail when no row has the id: HTTP 404
DeleteNotFound ==
    /\ guardrail.kind = "none"
    /\ delete_response' = [kind |-> "error", status_code |-> 404,
                           detail |-> "Guardrail not found"]
    /\ UNCHANGED <<guardrail, request, pc, context, blocks, idx,
                   execution_trace, final_decision, final_reason,
                   evaluation_logs, response, genVars, update_response,
                   create_response>>

\* db.commit() of the log row after the guardrail was deleted: the foreign
\* key guardrails.id fails, the handler raises, no log row, no response body
CommitFails ==
    /\ pc = "commit"
    /\ guardrail.kind = "none"
    /\ response' = [kind |-> "error", status_code |-> 500,
                    detail |-> "Internal Server Error"]
    /\ pc' = "done"
    /\ UNCHANGED <<guardrail, request, context, blocks, idx, execution_trace,
                   final_decision, final_reason, evaluation_logs, genVars,
                   crudVars>>

InitCrud ==
    /\ guardrail = NoGuardrail
    /\ GenerateOff
    /\ EvaluateIdle
    /\ CrudIdle

NextCrud ==
    \/ CreateGuardrail
    \/ UpdateGuardrail
    \/ UpdateNotFound
    \/ DeleteGuardrail
    \/ DeleteNotFound
    \/ StartEvaluate
    \/ EvaluateNotFound
    \/ ExecuteStep
    \/ Commit
    \/ CommitFails
    \/ Return

SpecCrud == InitCrud /\ [][NextCrud]_vars

\* ============================================================ properties
\* vocabulary shared by the properties below

\* the walk is over: the loop was left and the result is being (or was) returned
Finished == pc \in {"commit", "done"}

\* the stored block at position k is an action block with action "block"
IsActionBlock(b) ==
    Get(b, "type", "") = "action" /\ Get(b, "templateId", "") = "action-block"
IsActionOf(b, templateId) ==
    Get(b, "type", "") = "action" /\ Get(b, "templateId", "") = templateId

\* the trace entry records an activated action block emitting the given action
EmitsAction(e, action) ==
    /\ e.blockType = "action"
    /\ e.activated
    /\ e.result.kind = "dict"
    /\ Get(e.result.value, "action", "") = action

\* C2: when an activated action block with action 'block' is processed the
\* walk stops at once: it is the last entry of the trace from then on, no
\* later block is executed, the decision is 'block' and the reason is the
\* block's configured message, whatever decision was pending before it.
C2_BlockStopsWalk ==
    \A k \in 1..idx :
        IsActionBlock(blocks[k]) =>
            /\ k = idx
            /\ Len(execution_trace) = k
            /\ execution_trace[k].blockId = blocks[k].id
            /\ Finished
            /\ final_decision = "block"
            /\ ("message" \in DOMAIN blocks[k].config
                    => final_reason = blocks[k].config.message)
            /\ (pc = "done" =>
                    /\ response.kind = "ok"
                    /\ response.decision = "block"
                    /\ response.executionTrace = execution_trace
                    /\ ("message" \in DOMAIN blocks[k].config
                            => response.reason = blocks[k].config.message))

\* C2 witness: a finished walk that an action-block cut short while a
\* require_approval decision was pending, with blocks left unexecuted
C2_Witness ==
    /\ pc = "done"
    /\ idx >= 2
    /\ idx < Len(blocks)
    /\ IsActionBlock(blocks[idx])
    /\ \E j \in 1..(idx - 1) : EmitsAction(execution_trace[j], "require_approval")
    /\ response.decision = "block"
    /\ response.reason = "Access denied"

\* C10: every block processed, up to and including a terminating
\* action-block, is in the trace exactly once and in processing order,
\* activated or not: the trace is a prefix of the execution order.
C10_TracePrefix ==
    /\ Len(execution_trace) = idx
    /\ idx <= Len(blocks)
    /\ \A k \in 1..Len(execution_trace) :
          /\ execution_trace[k].blockId = blocks[k].id
          /\ execution_trace[k].blockType = blocks[k].type
          /\ execution_trace[k].activated = execute_block(blocks[k], context).activated
    /\ (Finished =>
          \/ idx = Len(blocks)
          \/ (idx > 0 /\ EmitsAction(execution_trace[idx], "block")))
    /\ (pc = "done" /\ guardrail.kind = "row" =>
            /\ response.kind = "ok"
            /\ response.executionTrace = execution_trace
            /\ Len(evaluation_logs) = 1
            /\ evaluation_logs[1].execution_trace = execution_trace)

\* C10 witness: a finished walk whose trace holds a block that did not
\* activate and ends with the terminating action-block
C10_Witness ==
    /\ pc = "done"
    /\ idx >= 2
    /\ idx < Len(blocks)
    /\ \E j \in 1..(idx - 1) : ~execution_trace[j].activated
    /\ EmitsAction(execution_trace[idx], "block")

\* ---- the graph of the evaluated guardrail, as its connections define it
GraphBlocks ==
    IF pc # "idle" THEN blocks
    ELSE IF guardrail.kind = "row" THEN guardrail.blocks ELSE <<>>
Connections == IF guardrail.kind = "row" THEN guardrail.connections ELSE <<>>
BlockIdsOf == {GraphBlocks[k].id : k \in 1..Len(GraphBlocks)}
BlockById(id) == GraphBlocks[CHOOSE k \in 1..Len(GraphBlocks) : GraphBlocks[k].id = id]

\* the connections into a block and the blocks they come from
Inbound(id) == {k \in 1..Len(Connections) : Connections[k].targetBlockId = id}
Upstream(id) == {Connections[k].sourceBlockId : k \in Inbound(id)}

\* the blocks reachable from a set of blocks in at most n connections
RECURSIVE ReachFrom(_, _)
ReachFrom(S, n) ==
    IF n = 0 THEN S
    ELSE ReachFrom(S \cup {Connections[k].targetBlockId :
                              k \in {j \in 1..Len(Connections) :
                                        Connections[j].sourceBlockId \in S}},
                   n - 1)

Descendants(id) ==
    ReachFrom({Connections[k].targetBlockId :
                  k \in {j \in 1..Len(Connections) :
                            Connections[j].sourceBlockId = id}},
              Len(GraphBlocks))

HasCycle == \E id \in BlockIdsOf : id \in Descendants(id)

InputIds == {id \in BlockIdsOf : BlockById(id).type = "input"}
ReachableFromInput == ReachFrom(InputIds, Len(GraphBlocks))

\* the activation the trace records for a block, FALSE when it has no entry
Activated(id) ==
    \E k \in 1..Len(execution_trace) :
        execution_trace[k].blockId = id /\ execution_trace[k].activated
Reached(id) ==
    \E k \in 1..Len(execution_trace) : execution_trace[k].blockId = id

\* the signal a block emits under the dataflow reading of the graph: a
\* condition emits its own test, a gate combines the signals carried by its
\* inbound connections, any other block emits TRUE when a connection
\* carries a signal into it (an input block always)
RECURSIVE Signal(_, _)
Signal(id, n) ==
    LET b == BlockById(id)
        Carries(k) ==
            LET src == BlockById(Connections[k].sourceBlockId)
            IN IF src.type = "condition" /\ Connections[k].sourceHandle = "false"
               THEN ~Signal(src.id, n - 1)
               ELSE Signal(src.id, n - 1)
    IN IF b.type = "input" THEN TRUE
       ELSE IF b.type = "condition" THEN execute_block(b, context).activated
       ELSE IF n = 0 THEN FALSE
       ELSE IF b.type = "logic" /\ b.templateId = "logic-and"
       THEN Inbound(id) # {} /\ \A k \in Inbound(id) : Carries(k)
       ELSE IF b.type = "logic" /\ b.templateId = "logic-not"
       THEN \E k \in Inbound(id) : ~Carries(k)
       ELSE \E k \in Inbound(id) : Carries(k)

Fires(id) == Signal(id, Len(GraphBlocks))

\* precedence of a decision: block > require_approval > warn > allow
Rank(decision) ==
    CASE decision = "block" -> 3
      [] decision = "require_approval" -> 2
      [] decision = "warn" -> 1
      [] OTHER -> 0

\* the precedence of the action a trace entry emits (0 when it emits none)
EntryRank(e) ==
    IF e.blockType = "action" /\ e.activated /\ e.result.kind = "dict"
    THEN Rank(Get(e.result.value, "action", ""))
    ELSE 0

\* C1: the final decision is the highest-precedence decision among the
\* activated action blocks processed (block > require_approval > warn >
\* allow); a pending require_approval is never replaced by warn.
C1_Precedence ==
    (pc = "done" /\ response.kind = "ok") =>
        /\ \A k \in 1..Len(execution_trace) :
               Rank(response.decision) >= EntryRank(execution_trace[k])
        /\ (Rank(response.decision) > 0 =>
               \E k \in 1..Len(execution_trace) :
                   Rank(response.decision) = EntryRank(execution_trace[k]))

\* C3: in a graph with an action-block on one path and an action-warn on
\* another, the decision is 'block' whenever the block path fires and
\* 'warn' when only the warn path fires.
C3_BlockPathBeforeWarnPath ==
    LET blockIds == {id \in BlockIdsOf : IsActionOf(BlockById(id), "action-block")}
        warnIds == {id \in BlockIdsOf : IsActionOf(BlockById(id), "action-warn")}
        otherIds == {id \in BlockIdsOf : IsActionOf(BlockById(id), "action-approval")}
    IN (pc = "done" /\ response.kind = "ok" /\ ~HasCycle /\ blockIds # {} /\ warnIds # {} /\ otherIds = {}
           /\ (blockIds \cup warnIds) \subseteq ReachableFromInput) =>
           /\ (\E id \in blockIds : Fires(id)) => response.decision = "block"
           /\ ((\A id \in blockIds : ~Fires(id)) /\ (\E id \in warnIds : Fires(id)))
                  => response.decision = "warn"

\* the request of the salary scenario with the given role
SalaryRequest(role) ==
    [message |-> "what is John's salary", userRole |-> StrVal(role),
     context |-> NoneVal]

\* C4: the salary graph with message "what is John's salary" and role
\* 'employee': contains activated, role not activated, AND not activated,
\* action-block not reached, action-allow reached, decision 'allow'.
C4_SalaryEmployeeAllowed ==
    (pc = "done" /\ blocks = SalaryGraph.blocks
        /\ Connections = SalaryGraph.connections
        /\ request = SalaryRequest("employee")) =>
        /\ Activated("block-2")
        /\ ~Activated("block-3")
        /\ ~Activated("block-4")
        /\ ~Reached("block-5")
        /\ Reached("block-6")
        /\ response.decision = "allow"

\* C5: the salary graph with a message containing 'salary' and role 'HR':
\* role activated, AND activated, decision 'block', reason 'Access denied'.
C5_SalaryHRBlocked ==
    (pc = "done" /\ blocks = SalaryGraph.blocks
        /\ Connections = SalaryGraph.connections
        /\ request = SalaryRequest("HR")) =>
        /\ Activated("block-3")
        /\ Activated("block-4")
        /\ response.decision = "block"
        /\ response.reason = "Access denied"

\* C6: a logic block's activation is the Boolean combination of the
\* activations of its connected upstream blocks: AND of all of them, OR of
\* any of them, NOT of the single one.
C6_LogicCombinesUpstream ==
    \A k \in 1..Len(execution_trace) :
        LET b == blocks[k]
            ups == Upstream(b.id)
        IN (b.type = "logic" /\ ups # {} /\ \A u \in ups : Reached(u)) =>
              /\ b.templateId = "logic-and" =>
                    (execution_trace[k].activated <=> \A u \in ups : Activated(u))
              /\ b.templateId = "logic-or" =>
                    (execution_trace[k].activated <=> \E u \in ups : Activated(u))
              /\ (b.templateId = "logic-not" /\ Cardinality(ups) = 1) =>
                    (execution_trace[k].activated <=> \A u \in ups : ~Activated(u))

\* C7: in an acyclic graph, whatever the declaration order, a block is
\* executed only after every block with a connection into it.
C7_UpstreamFirst ==
    ~HasCycle =>
        \A k \in 1..Len(execution_trace) :
            \A u \in Upstream(execution_trace[k].blockId) :
                \E j \in 1..(k - 1) : execution_trace[j].blockId = u

\* C8: for a graph whose connections contain a cycle, evaluation never
\* starts: no block is executed and no decision is produced; the caller
\* gets a cyclic-graph validation error.
C8_CyclicGraphNeverRuns ==
    HasCycle =>
        /\ execution_trace = <<>>
        /\ evaluation_logs = <<>>
        /\ (response # NoResponse => response.kind = "error")

\* C9: a block not reachable through connections from any input block
\* never appears in the trace with activated = true, and never changes
\* the decision.
C9_OrphanNeverActivates ==
    \A k \in 1..Len(execution_trace) :
        execution_trace[k].blockId \notin ReachableFromInput =>
            ~execution_trace[k].activated

\* the loop has just executed the block at position idx + 1
Executes(k) == pc = "walk" /\ idx = k - 1 /\ idx' = k

\* the trace entry emits one of the deciding actions
EmitsDeciding(e) ==
    \/ EmitsAction(e, "block")
    \/ EmitsAction(e, "warn")
    \/ EmitsAction(e, "require_approval")

\* C11: processing an activated action-allow or action-log block leaves
\* the running decision and its reason unchanged and does not stop the
\* walk; 'log' is never the decision.
C11_AllowLogKeepDecision ==
    [][/\ \A k \in 1..Len(blocks) :
             (Executes(k) /\ (IsActionOf(blocks[k], "action-allow")
                              \/ IsActionOf(blocks[k], "action-log"))) =>
                 /\ execution_trace'[k].activated
                 /\ final_decision' = final_decision
                 /\ final_reason' = final_reason
                 /\ (k < Len(blocks) => pc' = "walk")
       /\ final_decision' # "log"
       /\ (response'.kind = "ok" => response'.decision # "log")]_vars

\* C11 witness: a finished walk in which an action-allow and an action-log
\* ran after a warning and the warning is still the decision
C11_Witness ==
    /\ pc = "done"
    /\ Len(blocks) = 3
    /\ IsActionOf(blocks[1], "action-warn")
    /\ IsActionOf(blocks[2], "action-allow")
    /\ IsActionOf(blocks[3], "action-log")
    /\ Len(execution_trace) = 3
    /\ response.decision = "warn"
    /\ response.reason = "Sensitive topic"

\* C12 as stated: an evaluation in which no block, warn or
\* require_approval action activates (an empty block list included) ends
\* with decision 'allow' and reason "no blocking condition met".
C12_DefaultReasonAsStated ==
    (pc = "done" /\ response.kind = "ok"
        /\ \A k \in 1..Len(execution_trace) : ~EmitsDeciding(execution_trace[k])) =>
        /\ response.decision = "allow"
        /\ response.reason = "no blocking condition met"

\* C12 amended: such an evaluation ends with decision 'allow' and reason
\* "Request passed all guardrail checks".
C12_DefaultDecision ==
    (pc = "done" /\ response.kind = "ok"
        /\ \A k \in 1..Len(execution_trace) : ~EmitsDeciding(execution_trace[k])) =>
        /\ response.decision = "allow"
        /\ response.reason = "Request passed all guardrail checks"
        /\ Len(execution_trace) = Len(blocks)

\* C12 witness: a finished walk over blocks none of which decides, an
\* activated action-log among them
C12_Witness ==
    /\ pc = "done"
    /\ response.kind = "ok"
    /\ Len(execution_trace) >= 2
    /\ \A k \in 1..Len(execution_trace) : ~EmitsDeciding(execution_trace[k])
    /\ \E k \in 1..Len(execution_trace) : EmitsAction(execution_trace[k], "log")
    /\ response.decision = "allow"

\* the stored block is a condition-regex whose pattern does not compile
HasInvalidPattern(b) ==
    /\ Get(b, "type", "") = "condition"
    /\ Get(b, "templateId", "") = "condition-regex"
    /\ Get(b.config, "pattern", "") = "("

\* C13: a block whose evaluation raises (a condition-regex with an
\* invalid pattern) is recorded activated=false with an error annotation,
\* the walk goes on with the following blocks, and a later action-block
\* still yields decision 'block'.
C13_ErrorDoesNotAbort ==
    \A k \in 1..idx :
        HasInvalidPattern(blocks[k]) =>
            /\ ~execution_trace[k].activated
            /\ execution_trace[k].result.kind = "dict"
            /\ "error" \in DOMAIN execution_trace[k].result.value
            /\ (k < Len(blocks) /\ idx = k => pc = "walk")
            /\ (pc = "done" /\ (\E j \in (k + 1)..Len(blocks) : IsActionOf(blocks[j], "action-block"))
                   => response.decision = "block")

\* C13 witness: a finished walk that went past the failing regex block and
\* was ended by an action-block behind it
C13_Witness ==
    /\ pc = "done"
    /\ \E k \in 1..idx :
          /\ HasInvalidPattern(blocks[k])
          /\ k < idx
          /\ "error" \in DOMAIN execution_trace[k].result.value
    /\ EmitsAction(execution_trace[idx], "block")
    /\ response.decision = "block"

\* C17: an output block always activates, its result is the running
\* decision accumulated from the blocks processed before it, and
\* processing it leaves the running decision and reason unchanged.
C17_OutputShowsRunningDecision ==
    [][\A k \in 1..Len(blocks) :
          (Executes(k) /\ Get(blocks[k], "type", "") = "output") =>
              /\ execution_trace'[k].activated
              /\ execution_trace'[k].result = StrVal(final_decision)
              /\ final_decision' = final_decision
              /\ final_reason' = final_reason]_vars

\* C19: at the end of an evaluation the trace and the decision agree:
\* decision 'block' means the last entry is an activated action-block and
\* no earlier one is; any other decision means one entry per block of the
\* graph and no activated action-block among them.
C19_TraceAgreesWithDecision ==
    (pc = "done" /\ response.kind = "ok") =>
        LET t == response.executionTrace
            n == Len(t)
        IN IF response.decision = "block"
           THEN /\ n >= 1
                /\ EmitsAction(t[n], "block")
                /\ \A k \in 1..(n - 1) : ~EmitsAction(t[k], "block")
           ELSE /\ n = Len(blocks)
                /\ \A k \in 1..n : t[k].blockId = blocks[k].id
                /\ \A k \in 1..n : ~EmitsAction(t[k], "block")

\* C19 witness: a finished walk with decision 'warn' and an entry for each
\* of its three blocks
C19_Witness ==
    /\ pc = "done"
    /\ response.kind = "ok"
    /\ response.decision = "warn"
    /\ Len(blocks) = 3
    /\ Len(response.executionTrace) = 3

\* the context a request gives when its free-form context is left aside
RequestFieldsContext ==
    BuildContext([message |-> request.message, userRole |-> request.userRole,
                  context |-> NoneVal])

\* C20: the message and role the condition blocks test are the request's
\* message and userRole fields (the values logged as input_data),
\* whatever keys the request's context mapping holds.
C20_ConditionsTestRequestFields ==
    \A k \in 1..Len(execution_trace) :
        Get(blocks[k], "type", "") = "condition" =>
            execution_trace[k].activated =
                execute_block(blocks[k], RequestFieldsContext).activated

\* the answer went through validate_and_fix_connections
WasValidated ==
    /\ gen_pc = "done"
    /\ gen_result # NoneVal
    /\ gen_response.blocks = gen_result.blocks

\* C18: after validate_and_fix_connections returns for a non-empty block
\* list, every block block-1 .. block-N is the source or the target of at
\* least one returned connection: no block is left orphaned.
C18_NoBlockLeftOrphaned ==
    (WasValidated /\ Len(gen_response.blocks) > 0
        /\ gen_response.explanation = "Generated guardrail blocks") =>
        \A n \in 1..Len(gen_response.blocks) :
            \E k \in 1..Len(gen_response.connections) :
                \/ gen_response.connections[k].sourceBlockId = BlockIdOf(n)
                \/ gen_response.connections[k].targetBlockId = BlockIdOf(n)

\* the loop of evaluate_guardrail from block k on, as one function of the
\* block list and the context
RECURSIVE Walk(_, _, _, _, _, _)
Walk(bs, ctx, k, trace, decision, reason) ==
    IF k > Len(bs)
    THEN [decision |-> decision, reason |-> reason, executionTrace |-> trace]
    ELSE LET r == execute_block(bs[k], ctx)
             d == Decide(bs[k], r, decision, reason)
             t == AppendTrace(trace, bs[k], r)
         IN IF d.stop
            THEN [decision |-> d.decision, reason |-> d.reason,
                  executionTrace |-> t]
            ELSE Walk(bs, ctx, k + 1, t, d.decision, d.reason)

\* what an evaluation of the block list bs for the request req yields
Evaluate(bs, req) ==
    Walk(bs, BuildContext(req), 1, <<>>, "allow",
         "Request passed all guardrail checks")

\* C14: for a fixed block list and a fixed request (message, role, context),
\* any two evaluations produce the same decision, the same reason and the
\* same trace: whatever was evaluated or updated before, the response is the
\* one function Evaluate of the block list and the request.
C14_Deterministic ==
    (pc = "done" /\ response.kind = "ok") =>
        /\ response.decision = Evaluate(blocks, request).decision
        /\ response.reason = Evaluate(blocks, request).reason
        /\ response.executionTrace = Evaluate(blocks, request).executionTrace

\* a second evaluation of the same stored blocks for the same input, after a
\* first one that ended in 'warn', is logged with the same row contents
C14_Witness ==
    /\ pc = "done"
    /\ guardrail.kind = "row"
    /\ guardrail.version = 1
    /\ Len(evaluation_logs) = 2
    /\ evaluation_logs[1] = evaluation_logs[2]
    /\ evaluation_logs[2].decision = "warn"
    /\ Len(evaluation_logs[2].execution_trace) = 3

\* the evaluation is between its load and its response
InFlight == pc \in {"walk", "commit"}

\* C15: when an update of the guardrail (new blocks, version + 1) interleaves
\* with an in-flight evaluation, the evaluation executes exactly the block
\* list it loaded at its start: the update leaves the evaluation's list,
\* context, position, trace and decision alone, and every iteration records
\* and decides on the block of the loaded list, never one of the new row.
C15_InFlightUsesLoadedBlocks ==
    [][/\ InFlight => (blocks' = blocks /\ context' = context)
       /\ (InFlight /\ guardrail' # guardrail) =>
              UNCHANGED <<pc, idx, execution_trace, final_decision,
                          final_reason, response>>
       /\ \A k \in 1..Len(blocks) :
              Executes(k) =>
                  LET r == execute_block(blocks[k], context)
                      d == Decide(blocks[k], r, final_decision, final_reason)
                  IN /\ execution_trace' = AppendTrace(execution_trace, blocks[k], r)
                     /\ final_decision' = d.decision
                     /\ final_reason' = d.reason]_vars

\* an evaluation that loaded version 1 ended in its 'warn' although the row
\* was updated to other blocks before it responded
C15_Witness ==
    /\ pc = "done"
    /\ response.kind = "ok"
    /\ response.decision = "warn"
    /\ Len(response.executionTrace) = 3
    /\ guardrail.kind = "row"
    /\ guardrail.version = 2
    /\ guardrail.blocks # blocks

\* C16: an evaluation cancelled by the caller while blocks remain unprocessed
\* returns a result distinguishable as 'cancelled' whose trace holds only
\* the blocks completed before the cancellation.
C16_CancelledResult ==
    (pc = "cancelled" /\ idx < Len(blocks)) =>
        /\ response.kind = "cancelled"
        /\ response.executionTrace = execution_trace

\* this step is the answer of a successful update_guardrail
UpdateSucceeds ==
    update_response' # update_response /\ update_response'.kind = "ok"

\* this step is the answer of an update_guardrail that found no row
UpdateFails ==
    update_response' # update_response /\ update_response'.kind = "error"

\* this step is a step of evaluate_guardrail
EvaluateSteps == pc' # pc \/ idx' # idx \/ response' # response

====
